---- MODULE Spec2Model ----
\* Job Broadcast Hub of code-bridge (package sse, Stream-based Hub) together
\* with its two callers in the HTTP layer: the submission handler with its
\* producer goroutine (GinServer.TranslateCode) and the SSE reader
\* (GinServer.StreamHandler).
\* Spec is the Hub with its callers, the chunks of a job being opaque
\* messages; TranslateSpec is one job's producer goroutine with the chunks
\* CodeTranslatorService.TranslateCode makes of the provider's fragments.
\* ExtractSpec is detectCurrentSection and extractSectionContent on their
\* own, called on texts drawn at the start. AdapterSpec is a job run by one
\* of the two provider adapters, RaceSpec the Hub with all its requests at
\* work at once, and OldHubSpec the single-channel Hub of
\* src/internal/sse/hub.go with its readers.
EXTENDS Integers, Sequences, FiniteSets, TLC

\* ------------------------------------------------------------------ bounds
MaxChunks == 1          \* chunks the translator emits in one run, at most
MaxClock == 1           \* distinct readings of time.Now().UnixNano()
MaxStreams == 2         \* Stream objects ever allocated
ChanCap == 1            \* capacity of Client.Ch (make(chan string, 200)), scaled
MaxChannels == 2        \* channels the single-channel Hub ever makes
MaxSends == 2           \* Send calls on the single-channel Hub

Producers == {1, 2}     \* POST /translate requests
Readers == {1, 2}       \* GET /stream/:id requests
\* one run serves all but one of them: two submissions and a reader, or a
\* submission and two readers
MaxRequests == Cardinality(Producers) + Cardinality(Readers) - 1
Ids == 1..MaxClock
StreamIds == 1..MaxStreams
Channels == 1..MaxChannels
NoChannel == 0
NoStream == 0
\* the holder of a lock that is not a request: the goroutine of Hub.Run
Sweeper == Cardinality(Readers) + 1

DONE == "[DONE]"
ERR == "ERROR: provider"
ChunkNames == <<"c1", "c2", "c3", "c4">>
Chunk(k) == ChunkNames[k]

VARIABLES
    clock,      \* current reading of the wall clock (job ids are made from it)
    chans,      \* Hub.chans: job id -> stream (NoStream: no entry)
    nstreams,   \* number of Stream objects allocated so far
    clients,    \* Stream.clients
    buffer,     \* Stream.buffer
    done,       \* Stream.done
    smu,        \* Stream.mu: 0 free, r held by reader r's AddClient, or Sweeper
    hmu,        \* Hub.mu: "free", or "cleanup" while a sweep holds it
    todo,       \* job ids the running sweep has not visited yet
    reap,       \* job id the sweep found sealed and unsubscribed (0: none)
    prod,       \* producer goroutines
    rd,         \* StreamHandler requests
    ch,         \* Client.Ch contents, per reader
    closed,     \* Client.Ch closed, per reader
    out,        \* SSE data events written, per reader
    got,        \* history: buffer indices handed to the reader's queue
    skipped,    \* history: buffer indices skipped because the queue was full
    sent,       \* history: messages of the Send calls applied to each stream
    text,           \* TranslateCode: fullResponse
    currentSection, \* TranslateCode: currentSection
    sectionBuffer,  \* TranslateCode: sectionBuffer
    tpc,            \* where the producer goroutine of the job stands
    er,             \* what TranslateCode returned: "pending", "nil", "error"
    fed,            \* size of the provider output delivered so far
    emitted,        \* messages the goroutine has passed to Hub.Send, in order
    arg,            \* a text handed to the section functions
    calls,          \* history: the calls of the section functions, with results
    ochans,         \* single-channel Hub.chans: job id -> *Client (NoChannel: no entry)
    omade,          \* single-channel Hub: number of channels made so far
    och,            \* single-channel Hub: contents of each channel
    ocloses,        \* single-channel Hub: close() calls on each channel
    ord,            \* single-channel Hub: StreamHandler requests
    osends,         \* single-channel Hub: Send calls so far
    olate           \* single-channel Hub: a Send wrote to a closed channel

vars == <<clock, chans, nstreams, clients, buffer, done, smu, hmu, todo, reap,
          prod, rd, ch, closed, out, got, skipped, sent,
          text, currentSection, sectionBuffer, tpc, er, fed, emitted,
          arg, calls,
          ochans, omade, och, ocloses, ord, osends, olate>>

hubVars == <<chans, nstreams>>
streamVars == <<clients, buffer, done, smu, sent>>
queueVars == <<ch, closed, out, got, skipped>>
sweepVars == <<hmu, todo, reap>>
hubState == <<clock, hubVars, streamVars, sweepVars, prod, rd, queueVars>>
transVars == <<text, currentSection, sectionBuffer, tpc, er, fed, emitted>>
callVars == <<arg, calls>>
oldHubVars == <<ochans, omade, och, ocloses, ord, osends, olate>>

\* ----------------------------------------------------------------- helpers
Range(s) == {s[i] : i \in 1..Len(s)}
Last(s) == s[Len(s)]
IsClient(c, s) == c \in Range(clients[s])
\* (a removal that drops the oldest subscriber, whoever it is)
Without_Oldest(s, c) == IF s = <<>> THEN s ELSE Tail(s)

\* the subscriber list after `append(stream.clients[:i], stream.clients[i+1:]...)`
Without(s, c) == SelectSeq(s, LAMBDA x : x # c)
Count(m, s) == Cardinality({i \in 1..Len(s) : s[i] = m})
StrictlyIncreasing(s) == \A i, j \in 1..Len(s) : i < j => s[i] < s[j]

\* chunks emitted so far, by all jobs together
Emitted == prod[1].k + prod[2].k

\* requests accepted so far
Started == Cardinality({p \in Producers : prod[p].pc # "idle"})
           + Cardinality({r \in Readers : rd[r].pc # "idle"})

\* the server after construction, before any request
Constructed ==
    /\ clock = 1
    /\ chans = [i \in Ids |-> NoStream]
    /\ nstreams = 0
    /\ clients = [s \in StreamIds |-> <<>>]
    /\ buffer = [s \in StreamIds |-> <<>>]
    /\ done = [s \in StreamIds |-> FALSE]
    /\ smu = [s \in StreamIds |-> 0]
    /\ hmu = "free"
    /\ todo = {}
    /\ reap = 0
    /\ prod = [p \in Producers |->
                 [pc |-> "idle", id |-> 0, st |-> NoStream, msg |-> "", k |-> 0]]
    /\ rd = [r \in Readers |->
               [pc |-> "idle", id |-> 0, st |-> NoStream, st2 |-> NoStream,
                pos |-> 0, K |-> 0, first |-> FALSE, late |-> FALSE]]
    /\ ch = [r \in Readers |-> <<>>]
    /\ closed = [r \in Readers |-> FALSE]
    /\ out = [r \in Readers |-> <<>>]
    /\ got = [r \in Readers |-> <<>>]
    /\ skipped = [r \in Readers |-> {}]
    /\ sent = [s \in StreamIds |-> <<>>]
    /\ text = <<>>
    /\ currentSection = ""
    /\ sectionBuffer = <<>>
    /\ tpc = "stream"
    /\ er = "pending"
    /\ fed = 0
    /\ emitted = <<>>
    /\ ochans = [i \in Ids |-> NoChannel]
    /\ omade = 0
    /\ och = [c \in Channels |-> <<>>]
    /\ ocloses = [c \in Channels |-> 0]
    /\ ord = [r \in Readers |-> [pc |-> "idle", id |-> 0, ch |-> NoChannel]]
    /\ osends = 0
    /\ olate = FALSE

Init ==
    /\ Constructed
    /\ arg = <<>>
    /\ calls = <<>>

\* ------------------------------------------------------------ Hub: registry
\* (a Create that does not look whether the id is registered)
NeedsStream_Unchecked(id) == TRUE

\* `_, ok := h.chans[id]; !ok`
NeedsStream(id) == chans[id] = NoStream

\* Hub.Create, and the same lookup-or-allocate at the head of Hub.AddClient.
HubCreate(id) ==
    IF NeedsStream(id)
    THEN /\ nstreams < MaxStreams
         /\ nstreams' = nstreams + 1
         /\ chans' = [chans EXCEPT ![id] = nstreams + 1]
    ELSE UNCHANGED <<chans, nstreams>>

StreamAfterCreate(id) == IF NeedsStream(id) THEN nstreams + 1 ELSE chans[id]

\* (a Hub whose operations do not wait for stream.mu)
StreamLockFree_Ignored(s) == TRUE

\* stream.mu.Lock() can be taken
StreamLockFree(s) == smu[s] = 0

\* h.mu.Lock() / h.mu.RLock() can be taken
HubLockFree == hmu = "free"

\* -------------------------------------------------------------- Hub.Send
\* where the producer goroutine continues after Send(id, m) returned
After(m) == IF m = DONE THEN "end" ELSE IF m = ERR THEN "finish" ELSE "translate"

\* (a Send that buffers only while somebody listens)
NewBuffer_OnlyIfSubscribed(s, m) ==
    IF clients[s] = <<>> THEN buffer[s] ELSE Append(buffer[s], m)

\* `stream.buffer = append(stream.buffer, msg)`
NewBuffer(s, m) == Append(buffer[s], m)

\* `if msg == "[DONE]" { stream.done = true }`
Sealing(m) == m = DONE

\* (a fan-out loop that stops at the first full queue: `break` for `default`)
PushIdx_StopAtFull(c, s) ==
    IF \E i, j \in 1..Len(clients[s]) :
          /\ clients[s][j] = c
          /\ i <= j
          /\ Len(ch[clients[s][i]]) >= ChanCap
    THEN <<>>
    ELSE <<Len(buffer[s]) + 1>>

\* (a fan-out loop that lets a client catch up: the oldest message it
\* missed goes first once its queue has room again)
PushIdx_CatchUp(c, s) ==
    IF Len(ch[c]) < ChanCap
    THEN IF skipped[c] # {}
         THEN <<CHOOSE i \in skipped[c] : \A j \in skipped[c] : i <= j>>
         ELSE <<Len(buffer[s]) + 1>>
    ELSE <<>>

\* the select/default of the fan-out loop, for client c: the buffer indices
\* whose messages are put on c's queue by this Send
PushIdx(c, s) ==
    IF Len(ch[c]) < ChanCap THEN <<Len(buffer[s]) + 1>> ELSE <<>>

\* (a fan-out that hands over the entry before the one being appended)
MsgAt_Previous(s, m, i) == IF i > 1 THEN buffer[s][i - 1] ELSE m

\* the message at buffer index i once m has been appended
MsgAt(s, m, i) == IF i = Len(buffer[s]) + 1 THEN m ELSE buffer[s][i]

\* Send, first half: registry lookup under h.mu.RLock; `if !ok { return nil }`
SendLookup(p, m, k) ==
    /\ HubLockFree
    /\ LET s == chans[prod[p].id] IN
         prod' = [prod EXCEPT ![p] =
                    IF s = NoStream
                    THEN [@ EXCEPT !.pc = After(m), !.k = k]
                    ELSE [@ EXCEPT !.pc = "apply", !.st = s, !.msg = m, !.k = k]]

\* Send, second half: the critical section under stream.mu
SendApply(p) ==
    /\ prod[p].pc = "apply"
    /\ LET s == prod[p].st
           m == prod[p].msg
           n == Len(buffer[s]) + 1
       IN /\ StreamLockFree(s)
          /\ buffer' = [buffer EXCEPT ![s] = NewBuffer(s, m)]
          /\ sent' = [sent EXCEPT ![s] = Append(@, m)]
          /\ done' = [done EXCEPT ![s] = @ \/ Sealing(m)]
          /\ ch' = [c \in Readers |->
                      IF IsClient(c, s)
                      THEN ch[c] \o [i \in 1..Len(PushIdx(c, s)) |->
                                        MsgAt(s, m, PushIdx(c, s)[i])]
                      ELSE ch[c]]
          /\ got' = [c \in Readers |->
                       IF IsClient(c, s) THEN got[c] \o PushIdx(c, s) ELSE got[c]]
          /\ skipped' = [c \in Readers |->
                           IF IsClient(c, s) /\ n \notin Range(PushIdx(c, s))
                           THEN skipped[c] \cup {n} ELSE skipped[c]]
          /\ prod' = [prod EXCEPT ![p].pc = After(m), ![p].msg = ""]
    /\ UNCHANGED <<transVars, callVars, oldHubVars>>
    /\ UNCHANGED <<clock, hubVars, clients, smu, sweepVars, rd, closed, out>>

\* ------------------------------------------- GinServer.TranslateCode (POST)
\* `id := fmt.Sprintf("job-%d", time.Now().UnixNano()); s.sseHub.Create(id)`
\* (the wall clock has moved on since the previous submission's reading, or
\* it has not; the first reading is named 1)
\* (requests are numbered in the order in which they arrive)
Post(p) ==
    /\ prod[p].pc = "idle"
    /\ \A q \in Producers : q < p => prod[q].pc # "idle"
    /\ HubLockFree
    /\ \E t \in {clock, clock + 1} :
         /\ t <= MaxClock
         /\ (t # clock) => \E q \in Producers : prod[q].pc # "idle"
         /\ clock' = t
         /\ HubCreate(t)
         /\ prod' = [prod EXCEPT ![p].pc = "translate", ![p].id = t]
    /\ UNCHANGED <<transVars, callVars, oldHubVars>>
    /\ UNCHANGED <<streamVars, sweepVars, rd, queueVars>>

\* a request the server takes on (the number of requests is bounded)
Submit(p) == Started < MaxRequests /\ Post(p)

\* the translator calls the callback with one more chunk
EmitChunk(p) ==
    /\ prod[p].pc = "translate"
    /\ Emitted < MaxChunks
    /\ SendLookup(p, Chunk(prod[p].k + 1), prod[p].k + 1)
    /\ UNCHANGED <<transVars, callVars, oldHubVars>>
    /\ UNCHANGED <<clock, hubVars, streamVars, sweepVars, rd, queueVars>>

\* CodeTranslatorService.TranslateCode returned an error:
\* `_ = s.sseHub.Send(id, fmt.Sprintf("ERROR: %v", er))`
SendError(p) ==
    /\ prod[p].pc = "translate"
    /\ SendLookup(p, ERR, prod[p].k)
    /\ UNCHANGED <<transVars, callVars, oldHubVars>>
    /\ UNCHANGED <<clock, hubVars, streamVars, sweepVars, rd, queueVars>>

\* CodeTranslatorService.TranslateCode returned nil, or the error was sent:
\* `_ = s.sseHub.Send(id, "[DONE]")`
SendDone(p) ==
    /\ prod[p].pc \in {"translate", "finish"}
    /\ SendLookup(p, DONE, prod[p].k)
    /\ UNCHANGED <<transVars, callVars, oldHubVars>>
    /\ UNCHANGED <<clock, hubVars, streamVars, sweepVars, rd, queueVars>>

\* the job with this id was submitted and every producer goroutine of it has
\* come back from its last Send
Completed(id) ==
    /\ \E p \in Producers : prod[p].pc # "idle" /\ prod[p].id = id
    /\ \A p \in Producers :
          (prod[p].pc # "idle" /\ prod[p].id = id) => prod[p].pc = "end"

\* ---------------------------------------------------------- Hub.AddClient
\* lookup-or-create under h.mu
\* (late: history, the call started after the job's producers had returned
\* from Send(id, "[DONE]"))
Get(r, id) ==
    /\ rd[r].pc = "idle"
    /\ \A q \in Readers : q < r => rd[q].pc # "idle"
    /\ HubLockFree
    /\ HubCreate(id)
    /\ rd' = [rd EXCEPT ![r].pc = "attach", ![r].id = id,
                        ![r].st = StreamAfterCreate(id),
                        ![r].late = Completed(id)]
    /\ UNCHANGED <<transVars, callVars, oldHubVars>>
    /\ UNCHANGED <<clock, streamVars, sweepVars, prod, queueVars>>

\* a subscription the server takes on (the number of requests is bounded)
AddClientHub(r, id) == Started < MaxRequests /\ Get(r, id)

\* make(chan string, 200); stream.mu.Lock(); append to stream.clients;
\* the range expression of the replay loop is evaluated here
AddClientLock(r) ==
    /\ rd[r].pc = "attach"
    /\ LET s == rd[r].st IN
         /\ StreamLockFree(s)
         /\ smu' = [smu EXCEPT ![s] = r]
         /\ clients' = [clients EXCEPT ![s] = Append(@, r)]
         /\ rd' = [rd EXCEPT ![r].pc = "replay", ![r].pos = 0,
                             ![r].K = Len(buffer[s])]
    /\ UNCHANGED <<transVars, callVars, oldHubVars>>
    /\ UNCHANGED <<clock, hubVars, buffer, done, sent, sweepVars, prod, queueVars>>

\* one iteration of the replay loop: `client.Ch <- msg`, blocking
ReplayStep(r) ==
    /\ rd[r].pc = "replay"
    /\ rd[r].pos < rd[r].K
    /\ Len(ch[r]) < ChanCap
    /\ ch' = [ch EXCEPT ![r] = Append(@, buffer[rd[r].st][rd[r].pos + 1])]
    /\ got' = [got EXCEPT ![r] = Append(@, rd[r].pos + 1)]
    /\ rd' = [rd EXCEPT ![r].pos = @ + 1]
    /\ UNCHANGED <<transVars, callVars, oldHubVars>>
    /\ UNCHANGED <<clock, hubVars, streamVars, sweepVars, prod, closed, out, skipped>>

\* stream.mu.Unlock(); return client
\* (first: history, no Send call for the job id has started yet)
AddClientReturn(r) ==
    /\ rd[r].pc = "replay"
    /\ rd[r].pos = rd[r].K
    /\ smu' = [smu EXCEPT ![rd[r].st] = 0]
    /\ rd' = [rd EXCEPT ![r].pc = "reading",
                        ![r].first = \A p \in Producers :
                            (prod[p].pc # "idle" /\ prod[p].id = rd[r].id)
                            => (prod[p].pc = "translate" /\ prod[p].k = 0)]
    /\ UNCHANGED <<transVars, callVars, oldHubVars>>
    /\ UNCHANGED <<clock, hubVars, clients, buffer, done, sent, sweepVars, prod,
                   queueVars>>

\* ------------------------------------------------- GinServer.StreamHandler
\* (a handler that goes on reading after the sentinel)
AfterEvent_KeepReading(msg) == "reading"

\* `if msg == "[DONE]" { return }`: the deferred RemoveClient runs
AfterEvent(msg) == IF msg = DONE THEN "detach" ELSE "reading"

\* `case msg, ok := <-client.Ch`: write the event, return after "[DONE]"
Recv(r) ==
    /\ rd[r].pc = "reading"
    /\ ch[r] # <<>>
    /\ out' = [out EXCEPT ![r] = Append(@, Head(ch[r]))]
    /\ ch' = [ch EXCEPT ![r] = Tail(@)]
    /\ rd' = [rd EXCEPT ![r].pc = AfterEvent(Head(ch[r]))]
    /\ UNCHANGED <<transVars, callVars, oldHubVars>>
    /\ UNCHANGED <<clock, hubVars, streamVars, sweepVars, prod, closed, got, skipped>>

\* `case <-c.Request.Context().Done()`: the client went away
Cancel(r) ==
    /\ rd[r].pc = "reading"
    /\ rd' = [rd EXCEPT ![r].pc = "detach"]
    /\ UNCHANGED <<transVars, callVars, oldHubVars>>
    /\ UNCHANGED <<clock, hubVars, streamVars, sweepVars, prod, queueVars>>

\* ------------------------------------------------------- Hub.RemoveClient
\* the deferred RemoveClient: registry lookup; `if !ok { return }`
RemoveLookup(r) ==
    /\ rd[r].pc = "detach"
    /\ HubLockFree
    /\ rd' = [rd EXCEPT ![r].pc = IF chans[rd[r].id] = NoStream THEN "gone"
                                  ELSE "detach2",
                        ![r].st2 = chans[rd[r].id],
                        ![r].first = FALSE, ![r].late = FALSE]
    /\ UNCHANGED <<transVars, callVars, oldHubVars>>
    /\ UNCHANGED <<clock, hubVars, streamVars, sweepVars, prod, queueVars>>

\* remove the handle from stream.clients under stream.mu
RemoveDetach(r) ==
    /\ rd[r].pc = "detach2"
    /\ StreamLockFree(rd[r].st2)
    /\ clients' = [clients EXCEPT ![rd[r].st2] = Without(@, r)]
    /\ rd' = [rd EXCEPT ![r].pc = "close"]
    /\ UNCHANGED <<transVars, callVars, oldHubVars>>
    /\ UNCHANGED <<clock, hubVars, buffer, done, smu, sent, sweepVars, prod,
                   queueVars>>

\* close(client.Ch); the handler has returned, its queue is garbage
RemoveClose(r) ==
    /\ rd[r].pc = "close"
    /\ closed' = [closed EXCEPT ![r] = TRUE]
    /\ ch' = [ch EXCEPT ![r] = <<>>]
    /\ got' = [got EXCEPT ![r] = <<>>]
    /\ skipped' = [skipped EXCEPT ![r] = {}]
    /\ rd' = [rd EXCEPT ![r].pc = "gone", ![r].st2 = NoStream, ![r].pos = 0,
                        ![r].first = FALSE]
    /\ UNCHANGED <<transVars, callVars, oldHubVars>>
    /\ UNCHANGED <<clock, hubVars, streamVars, sweepVars, prod, out>>

\* ------------------------------------------------------------ Hub.cleanup
\* h.mu.Lock(); the sweep ranges over the registry (over an empty registry
\* it unlocks at once and changes nothing)
CleanupBegin ==
    /\ HubLockFree
    /\ \E i \in Ids : chans[i] # NoStream
    /\ hmu' = "cleanup"
    /\ todo' = {i \in Ids : chans[i] # NoStream}
    /\ UNCHANGED <<transVars, callVars, oldHubVars>>
    /\ UNCHANGED <<clock, hubVars, streamVars, reap, prod, rd, queueVars>>

\* `done && clientCount == 0`, on the values read under stream.mu.RLock
Reapable(s) == done[s] /\ clients[s] = <<>>

\* one iteration, in map order: stream.mu.RLock(), with h.mu held
CleanupRLock(id) ==
    /\ hmu = "cleanup"
    /\ reap = 0
    /\ id \in todo
    /\ \A s \in StreamIds : smu[s] # Sweeper
    /\ StreamLockFree(chans[id])
    /\ smu' = [smu EXCEPT ![chans[id]] = Sweeper]
    /\ UNCHANGED <<transVars, callVars, oldHubVars>>
    /\ UNCHANGED <<clock, hubVars, clients, buffer, done, sent, sweepVars, prod,
                   rd, queueVars>>

\* read done and len(clients); stream.mu.RUnlock(). An entry that is not to
\* be deleted is finished with that; after the last one the deferred
\* h.mu.Unlock() runs
CleanupVisit(id) ==
    /\ hmu = "cleanup"
    /\ id \in todo
    /\ smu[chans[id]] = Sweeper
    /\ smu' = [smu EXCEPT ![chans[id]] = 0]
    /\ todo' = todo \ {id}
    /\ reap' = IF Reapable(chans[id]) THEN id ELSE 0
    /\ hmu' = IF todo' = {} /\ reap' = 0 THEN "free" ELSE "cleanup"
    /\ UNCHANGED <<transVars, callVars, oldHubVars>>
    /\ UNCHANGED <<clock, hubVars, clients, buffer, done, sent, prod, rd,
                   queueVars>>

\* `delete(h.chans, id)`, after the stream lock has been given back
CleanupDelete ==
    /\ hmu = "cleanup"
    /\ reap # 0
    /\ chans' = [chans EXCEPT ![reap] = NoStream]
    /\ reap' = 0
    /\ hmu' = IF todo = {} THEN "free" ELSE "cleanup"
    /\ UNCHANGED <<transVars, callVars, oldHubVars>>
    /\ UNCHANGED <<clock, nstreams, todo, streamVars, prod, rd, queueVars>>

\* ------------------------------------------------------------------- Next
Next ==
    \/ \E p \in Producers : Submit(p)
    \/ \E p \in Producers : EmitChunk(p)
    \/ \E p \in Producers : SendError(p)
    \/ \E p \in Producers : SendDone(p)
    \/ \E p \in Producers : SendApply(p)
    \/ \E r \in Readers, id \in Ids : AddClientHub(r, id)
    \/ \E r \in Readers : AddClientLock(r)
    \/ \E r \in Readers : ReplayStep(r)
    \/ \E r \in Readers : AddClientReturn(r)
    \/ \E r \in Readers : Recv(r)
    \/ \E r \in Readers : Cancel(r)
    \/ \E r \in Readers : RemoveLookup(r)
    \/ \E r \in Readers : RemoveDetach(r)
    \/ \E r \in Readers : RemoveClose(r)
    \/ CleanupBegin
    \/ \E id \in Ids : CleanupRLock(id)
    \/ \E id \in Ids : CleanupVisit(id)
    \/ CleanupDelete

Spec == Init /\ [][Next]_vars

\* Hub.Run: the ticker fires again and again, and a sweep that has started
\* goes on whenever the lock it needs is free
FairSpec ==
    /\ Spec
    /\ WF_vars(CleanupBegin)
    /\ WF_vars(\E id \in Ids : CleanupRLock(id))
    /\ WF_vars(\E id \in Ids : CleanupVisit(id))
    /\ WF_vars(CleanupDelete)

\* every producer and every reader at work at once, for the races between
\* RemoveClient, the sweep and a Send that has looked its stream up: jobs
\* that send their sentinel only and readers that stay until they are told
\* to leave
RaceNext ==
    \/ \E p \in Producers : Post(p)
    \/ \E p \in Producers : SendDone(p)
    \/ \E p \in Producers : SendApply(p)
    \/ \E r \in Readers, id \in Ids : Get(r, id)
    \/ \E r \in Readers : AddClientLock(r)
    \/ \E r \in Readers : ReplayStep(r)
    \/ \E r \in Readers : AddClientReturn(r)
    \/ \E r \in Readers : Recv(r)
    \/ \E r \in Readers : RemoveLookup(r)
    \/ \E r \in Readers : RemoveDetach(r)
    \/ \E r \in Readers : RemoveClose(r)
    \/ CleanupBegin
    \/ \E id \in Ids : CleanupRLock(id)
    \/ \E id \in Ids : CleanupVisit(id)
    \/ CleanupDelete

RaceSpec == Init /\ [][RaceNext]_vars

\* the goroutines of the server are scheduled: a call of AddClient or
\* RemoveClient that can go on goes on, a Send that finds its lock free again
\* and again gets it, and the sweep runs. Nothing is assumed about the
\* clients: a handler writes to a connection that may stall for ever.
LiveSpec ==
    /\ FairSpec
    /\ \A r \in Readers :
          /\ WF_vars(AddClientLock(r))
          /\ WF_vars(ReplayStep(r))
          /\ WF_vars(AddClientReturn(r))
          /\ WF_vars(RemoveLookup(r))
          /\ WF_vars(RemoveDetach(r))
          /\ WF_vars(RemoveClose(r))
    /\ \A p \in Producers :
          /\ SF_vars(SendDone(p))
          /\ SF_vars(SendApply(p))

\* Text is a sequence of tokens: a section marker (matched in the lower-cased
\* text, so a token stands for every spelling of the marker), a code fence,
\* a piece of a language tag, a blank, a newline, a letter of payload, or one
\* byte of a character outside ASCII. Offsets are byte offsets, from 0 as in
\* Go, every token counting with the bytes it stands for.
MaxFed == 5             \* size of the provider output of one job, at most

MarkE == "=== explanation ==="
MarkN == "=== translation notes ==="
MarkC == "=== translated code ==="
Fence == "<fence>"     \* three backquotes
Blank == " "
Newline == "<nl>"
\* U+023A, two bytes in UTF-8; its lower-case form U+2C65 has three
WideUpper == <<"C8", "BA">>
WideLower == <<"E2", "B1", "A5">>
\* what a slice expression with bounds out of range leaves in place of a
\* value: the goroutine panics
Panic == <<"panic: slice bounds out of range">>
\* what is left of a token that a slice cuts through
Part == "<part>"
Tokens == {MarkE, MarkN, MarkC, Blank, "a"}

\* what one call of the provider's callback may carry
Fragments ==
    {<<>>} \cup {<<t>> : t \in Tokens} \cup {<<t, u>> : t \in Tokens, u \in Tokens}

\* len(x) of one token
Width(x) ==
    CASE x = Fence -> 3
      [] x = Newline -> 1
      [] x \in {"C8", "BA", "E2", "B1", "A5"} -> 1
      [] OTHER -> Len(x)

\* len(t)
RECURSIVE ByteLen(_)
ByteLen(t) == IF t = <<>> THEN 0 ELSE Width(Head(t)) + ByteLen(Tail(t))

\* the offset of the i-th token of t
OffsetOf(t, i) == ByteLen(SubSeq(t, 1, i - 1))

\* strings.Index / strings.LastIndex for a marker: the offset of the first
\* (last) occurrence, -1 if there is none
Index(t, m) ==
    IF \E i \in 1..Len(t) : t[i] = m
    THEN OffsetOf(t, CHOOSE i \in 1..Len(t) :
                        t[i] = m /\ \A j \in 1..(i - 1) : t[j] # m)
    ELSE -1

LastIndex(t, m) ==
    IF \E i \in 1..Len(t) : t[i] = m
    THEN OffsetOf(t, CHOOSE i \in 1..Len(t) :
                        t[i] = m /\ \A j \in (i + 1)..Len(t) : t[j] # m)
    ELSE -1

\* strings.TrimSpace
IsSpace(x) == x \in {Blank, Newline}

RECURSIVE TrimLeft(_)
TrimLeft(t) == IF t # <<>> /\ IsSpace(Head(t)) THEN TrimLeft(Tail(t)) ELSE t

RECURSIVE TrimRight(_)
TrimRight(t) ==
    IF t # <<>> /\ IsSpace(t[Len(t)])
    THEN TrimRight(SubSeq(t, 1, Len(t) - 1))
    ELSE t

TrimSpace(t) == TrimRight(TrimLeft(t))

\* strings.TrimPrefix / strings.TrimSuffix
HasPrefix(t, p) == Len(t) >= Len(p) /\ SubSeq(t, 1, Len(p)) = p
TrimPrefix(t, p) == IF HasPrefix(t, p) THEN SubSeq(t, Len(p) + 1, Len(t)) ELSE t
TrimSuffix(t, p) ==
    IF Len(t) >= Len(p) /\ SubSeq(t, Len(t) - Len(p) + 1, Len(t)) = p
    THEN SubSeq(t, 1, Len(t) - Len(p))
    ELSE t

\* the opening fences extractSectionContent strips, in the order of its
\* TrimPrefix calls
FencePrefixes ==
    << <<Fence, "java", "script">>, <<Fence, "type", "script">>,
       <<Fence, "python">>, <<Fence, "go">>, <<Fence, "rust">>, <<Fence, "java">>,
       <<Fence, "csharp">>, <<Fence, "cpp">>, <<Fence, "php">>, <<Fence, "ruby">>,
       <<Fence, "swift">>, <<Fence, "kotlin">>, <<Fence>> >>

RECURSIVE TrimPrefixes(_, _)
TrimPrefixes(t, ps) ==
    IF ps = <<>> THEN t ELSE TrimPrefixes(TrimPrefix(t, Head(ps)), Tail(ps))

\* strings.ToLower: a character whose lower-case form is longer makes the
\* lower-cased text longer than the text
RECURSIVE ToLower(_)
ToLower(t) ==
    IF t = <<>> THEN <<>>
    ELSE IF HasPrefix(t, WideUpper)
         THEN WideLower \o ToLower(SubSeq(t, Len(WideUpper) + 1, Len(t)))
         ELSE <<Head(t)>> \o ToLower(Tail(t))

\* the bytes of t from offset lo up to offset hi, a token that lies only
\* partly in that range leaving a Part
RECURSIVE Cut(_, _, _)
Cut(t, lo, hi) ==
    IF t = <<>> \/ hi <= 0 THEN <<>>
    ELSE LET w == Width(Head(t))
             rest == Cut(Tail(t), lo - w, hi - w)
         IN IF w <= lo \/ lo >= hi THEN rest
            ELSE IF lo <= 0 /\ w <= hi THEN <<Head(t)>> \o rest
            ELSE <<Part>> \o rest

\* the slice expression t[lo:hi]
Slice(t, lo, hi) ==
    IF 0 <= lo /\ lo <= hi /\ hi <= ByteLen(t) THEN Cut(t, lo, hi) ELSE Panic

\* (a detection by the first occurrence of each marker)
DetectCurrentSection_FirstMarker(t) ==
    LET lowerText == ToLower(t)
        lastExplanation == Index(lowerText, MarkE)
        lastNotes == Index(lowerText, MarkN)
        lastCode == Index(lowerText, MarkC)
    IN IF lastCode > lastNotes /\ lastCode > lastExplanation THEN "code"
       ELSE IF lastNotes > lastExplanation /\ lastNotes > lastCode THEN "notes"
       ELSE IF lastExplanation >= 0 THEN "explanation"
       ELSE ""

\* (a detection that keeps the section of the call before when the text has
\* no marker of its own)
DetectCurrentSection_Remembering(t) ==
    LET lowerText == ToLower(t)
        lastExplanation == LastIndex(lowerText, MarkE)
        lastNotes == LastIndex(lowerText, MarkN)
        lastCode == LastIndex(lowerText, MarkC)
    IN IF lastCode > lastNotes /\ lastCode > lastExplanation THEN "code"
       ELSE IF lastNotes > lastExplanation /\ lastNotes > lastCode THEN "notes"
       ELSE IF lastExplanation >= 0 THEN "explanation"
       ELSE IF calls # <<>> THEN Last(calls).section
       ELSE ""

\* detectCurrentSection
DetectCurrentSection(t) ==
    LET lowerText == ToLower(t)
        lastExplanation == LastIndex(lowerText, MarkE)
        lastNotes == LastIndex(lowerText, MarkN)
        lastCode == LastIndex(lowerText, MarkC)
    IN IF lastCode > lastNotes /\ lastCode > lastExplanation THEN "code"
       ELSE IF lastNotes > lastExplanation /\ lastNotes > lastCode THEN "notes"
       ELSE IF lastExplanation >= 0 THEN "explanation"
       ELSE ""

\* text[start : start+end] of the explanation and notes cases: start is the
\* offset behind the first `from` marker of the lower-cased text, end the
\* offset of the first `to` marker in lowerText[start:], or len(text) - start
Between(t, from, to) ==
    LET lowerText == ToLower(t)
        start == Index(lowerText, from) + Width(from)
        found == Index(Slice(lowerText, start, ByteLen(lowerText)), to)
        end == IF found = -1 THEN ByteLen(t) - start ELSE found
    IN Slice(t, start, start + end)

\* (an extractor that takes a text without the section's marker to be the
\* section's content)
ExtractSectionContent_WholeText(t, section) == TrimSpace(t)

\* extractSectionContent
ExtractSectionContent(t, section) ==
    CASE section = "explanation" ->
           IF Index(ToLower(t), MarkE) = -1 THEN <<>>
           ELSE TrimSpace(Between(t, MarkE, MarkN))
      [] section = "notes" ->
           IF Index(ToLower(t), MarkN) = -1 THEN <<>>
           ELSE TrimSpace(Between(t, MarkN, MarkC))
      [] section = "code" ->
           IF Index(ToLower(t), MarkC) = -1 THEN <<>>
           ELSE LET start == Index(ToLower(t), MarkC) + Width(MarkC)
                    content == TrimSpace(Slice(t, start, ByteLen(t)))
                IN TrimSpace(TrimSuffix(TrimPrefixes(content, FencePrefixes),
                                        <<Fence>>))
      [] OTHER -> <<>>

\* json.Marshal(StreamChunk{Type, Content, Delta}): the message as a JSON
\* object (with `omitempty` the key delta is written only when true)
Marshal(type, content, delta) ==
    [json |-> TRUE, type |-> type, content |-> content, delta |-> delta]

\* a message that is a plain string, not a JSON object
Plain(str) == [json |-> FALSE, type |-> "", content |-> <<str>>, delta |-> FALSE]

\* sendFinalSections
Sections == <<"explanation", "notes", "code">>

\* (a loop body without the `if content != ""`)
FinalChunk_EvenIfEmpty(t, section) ==
    <<Marshal(section, ExtractSectionContent(t, section), FALSE)>>

\* the loop body: the final chunk of one section, if it has content
FinalChunk(t, section) ==
    LET content == ExtractSectionContent(t, section)
    IN IF content # <<>> THEN <<Marshal(section, content, FALSE)>> ELSE <<>>

RECURSIVE FinalSections(_, _)
FinalSections(t, secs) ==
    IF secs = <<>> THEN <<>>
    ELSE FinalChunk(t, Head(secs)) \o FinalSections(t, Tail(secs))

\* (a callback that closes the previous section on every fragment)
SectionChanged_EveryFragment(newSection, current) == current # ""

\* `newSection != currentSection && currentSection != ""`
SectionChanged(newSection, current) == newSection # current /\ current # ""

\* the size of a fragment: its tokens, an empty fragment counting as one
Size(chunk) == IF chunk = <<>> THEN 1 ELSE Len(chunk)

\* the callback TranslateCode hands to StreamCompletion, called with one
\* fragment (onChunk is Hub.Send behind a logger and returns nil)
OnChunk(chunk) ==
    /\ tpc = "stream"
    /\ fed + Size(chunk) <= MaxFed
    /\ LET t == text \o chunk
           newSection == DetectCurrentSection(t)
           changed == SectionChanged(newSection, currentSection)
           final == IF changed THEN FinalChunk(t, currentSection) ELSE <<>>
           buf == IF changed THEN <<>> ELSE sectionBuffer
           content == ExtractSectionContent(t, newSection)
           send == newSection # "" /\ content # <<>> /\ content # buf
       IN /\ text' = t
          /\ currentSection' = newSection
          /\ sectionBuffer' = IF send THEN buf \o content ELSE buf
          /\ emitted' = emitted \o final
                        \o (IF send THEN <<Marshal(newSection, content, TRUE)>>
                            ELSE <<>>)
    /\ fed' = fed + Size(chunk)
    /\ UNCHANGED <<hubState, callVars, oldHubVars, tpc, er>>

\* StreamCompletion returns nil: `return s.sendFinalSections(...)`
ProviderEnds ==
    /\ tpc = "stream"
    /\ emitted' = emitted \o FinalSections(text, Sections)
    /\ er' = "nil"
    /\ tpc' = "returned"
    /\ UNCHANGED <<hubState, callVars, oldHubVars, text, currentSection, sectionBuffer, fed>>

\* StreamCompletion returns an error: `if err != nil { return err }`
ProviderFails ==
    /\ tpc = "stream"
    /\ er' = "error"
    /\ tpc' = "returned"
    /\ UNCHANGED <<hubState, callVars, oldHubVars, text, currentSection, sectionBuffer, fed, emitted>>

\* `if er != nil { _ = s.sseHub.Send(id, fmt.Sprintf("ERROR: %v", er)) }`
ReportError ==
    /\ tpc = "returned"
    /\ er = "error"
    /\ emitted' = Append(emitted, Plain(ERR))
    /\ tpc' = "reported"
    /\ UNCHANGED <<hubState, callVars, oldHubVars, text, currentSection, sectionBuffer, er, fed>>

\* `_ = s.sseHub.Send(id, "[DONE]")`
Terminate ==
    /\ \/ tpc = "returned" /\ er = "nil"
       \/ tpc = "reported"
    /\ emitted' = Append(emitted, Plain(DONE))
    /\ tpc' = "end"
    /\ UNCHANGED <<hubState, callVars, oldHubVars, text, currentSection, sectionBuffer, er, fed>>

TranslateNext ==
    \/ \E chunk \in Fragments : OnChunk(chunk)
    \/ ProviderEnds
    \/ ProviderFails
    \/ ReportError
    \/ Terminate

\* one job, seen from its producer goroutine
TranslateSpec == Init /\ [][TranslateNext]_vars

\* ------------------------------------------------ the provider adapters
\* The two providers the Factory can return, at the moment the upstream
\* backend fails in the middle of a response.

\* OpenAI: after the loop, `if err := stream.Err(); err != nil {
\* log.Fatalf(...) }`: the error is logged and the process exits, nothing is
\* returned to TranslateCode
OpenAIStreamError ==
    /\ tpc = "stream"
    /\ tpc' = "exited"
    /\ UNCHANGED <<hubState, callVars, oldHubVars, text, currentSection, sectionBuffer, er, fed, emitted>>

\* Gemini: `for chunk := range stream` takes the response of each pair the
\* iterator yields and drops the error. On a failure the pair is (nil, err):
\* chunk.Text() on the nil response either panics, which ends the process, or
\* yields no text, after which the loop ends and the adapter returns nil as
\* it does after a complete response
GeminiStreamError ==
    /\ tpc = "stream"
    /\ \/ /\ tpc' = "exited"
          /\ UNCHANGED <<er, emitted>>
       \/ /\ tpc' = "returned"
          /\ er' = "nil"
          /\ emitted' = emitted \o FinalSections(text, Sections)
    /\ UNCHANGED <<hubState, callVars, oldHubVars, text, currentSection, sectionBuffer, fed>>

UpstreamFails == OpenAIStreamError \/ GeminiStreamError

AdapterNext ==
    \/ \E chunk \in Fragments : OnChunk(chunk)
    \/ ProviderEnds
    \/ OpenAIStreamError
    \/ GeminiStreamError
    \/ Terminate

\* one job run by one of the two adapters of the repository
AdapterSpec == Init /\ [][AdapterNext]_vars

\* ================================ the single-channel Hub (sse/hub.go)
\* One channel per job id, shared by everybody who asks for the id. Every
\* method runs under Hub.mu from its first statement to its return, so each
\* is one step. A goroutine that panics ends the run.
OldHubRunning == ~olate /\ \A c \in Channels : ocloses[c] <= 1

\* `&Client{Ch: make(chan string, 100)}` stored under the id, if the id has
\* no entry
OldHubEntry(id) ==
    IF ochans[id] = NoChannel
    THEN /\ omade < MaxChannels
         /\ omade' = omade + 1
         /\ ochans' = [ochans EXCEPT ![id] = omade + 1]
    ELSE UNCHANGED <<ochans, omade>>

\* Hub.Create
OldCreate(id) ==
    /\ OldHubRunning
    /\ OldHubEntry(id)
    /\ UNCHANGED <<hubState, transVars, callVars, och, ocloses, ord, osends, olate>>

\* StreamHandler: `client := s.sseHub.AddClient(id)` returns the entry of
\* the id, the one an earlier reader of the id may hold already
OldAddClient(r, id) ==
    /\ OldHubRunning
    /\ ord[r].pc = "idle"
    /\ OldHubEntry(id)
    /\ ord' = [ord EXCEPT ![r] = [pc |-> "reading", id |-> id, ch |-> ochans'[id]]]
    /\ UNCHANGED <<hubState, transVars, callVars, och, ocloses, osends, olate>>

\* Hub.Send: the select/default on the entry's channel; a send on a closed
\* channel panics
OldSend(id, msg) ==
    /\ OldHubRunning
    /\ osends < MaxSends
    /\ osends' = osends + 1
    /\ LET c == ochans[id] IN
         IF c = NoChannel THEN UNCHANGED <<och, olate>>
         ELSE IF ocloses[c] > 0 THEN olate' = TRUE /\ UNCHANGED och
         ELSE /\ och' = [och EXCEPT ![c] = IF Len(@) < ChanCap
                                           THEN Append(@, msg) ELSE @]
              /\ UNCHANGED olate
    /\ UNCHANGED <<hubState, transVars, callVars, ochans, omade, ocloses, ord>>

\* the loop of StreamHandler: a message taken from the channel (after
\* "[DONE]" the handler returns), or `!ok` on a closed and drained channel
OldRecv(r) ==
    /\ OldHubRunning
    /\ ord[r].pc = "reading"
    /\ LET c == ord[r].ch IN
         \/ /\ och[c] # <<>>
            /\ och' = [och EXCEPT ![c] = Tail(@)]
            /\ ord' = [ord EXCEPT ![r].pc = AfterEvent(Head(och[c]))]
         \/ /\ och[c] = <<>>
            /\ ocloses[c] > 0
            /\ ord' = [ord EXCEPT ![r].pc = "detach"]
            /\ UNCHANGED och
    /\ UNCHANGED <<hubState, transVars, callVars, ochans, omade, ocloses, osends, olate>>

\* `case <-c.Request.Context().Done(): return`
OldCancel(r) ==
    /\ OldHubRunning
    /\ ord[r].pc = "reading"
    /\ ord' = [ord EXCEPT ![r].pc = "detach"]
    /\ UNCHANGED <<hubState, transVars, callVars, ochans, omade, och, ocloses, osends, olate>>

\* the deferred Hub.RemoveClient(id, client): `close(client.Ch)`, then
\* `delete(h.chans, id)`. Closing a closed channel panics before the delete
OldRemoveClient(r) ==
    /\ OldHubRunning
    /\ ord[r].pc = "detach"
    /\ ocloses' = [ocloses EXCEPT ![ord[r].ch] = @ + 1]
    /\ ochans' = IF ocloses[ord[r].ch] = 0
                 THEN [ochans EXCEPT ![ord[r].id] = NoChannel]
                 ELSE ochans
    /\ ord' = [ord EXCEPT ![r].pc = "gone"]
    /\ UNCHANGED <<hubState, transVars, callVars, omade, och, osends, olate>>

OldHubNext ==
    \/ \E id \in Ids : OldCreate(id)
    \/ \E r \in Readers, id \in Ids : OldAddClient(r, id)
    \/ \E id \in Ids, msg \in {Chunk(1), DONE} : OldSend(id, msg)
    \/ \E r \in Readers : OldRecv(r)
    \/ \E r \in Readers : OldCancel(r)
    \/ \E r \in Readers : OldRemoveClient(r)

OldHubSpec == Init /\ [][OldHubNext]_vars

\* ================================================ the section functions
\* detectCurrentSection and extractSectionContent on their own: a text is
\* drawn at the start, the functions are called on it, on other texts, and
\* on it again, as the callback calls them fragment after fragment.
MaxLen == 4             \* characters and markers of a drawn text, at most
MaxBetween == 1         \* calls on other texts between two calls on a text

\* U+023A as one character
Wide == WideUpper
Units == {<<MarkE>>, <<MarkN>>, <<MarkC>>, <<Blank>>, <<"a">>, Wide}

RECURSIVE Strings(_)
Strings(n) ==
    IF n = 0 THEN {<<>>}
    ELSE LET shorter == Strings(n - 1)
         IN shorter \cup {t \o u : t \in shorter, u \in Units}

\* the payload the prompt asks for: a fenced block tagged with the target
\* language, which the caller of POST /translate names freely
Tags == {<<"js">>, <<"java", "script">>, <<"go", "lang">>, <<"go">>,
         <<"type", "script">>, <<"python">>, <<>>}
Bodies == {<<"a">>, <<"a", Newline, "a">>, <<"a", Blank, "a">>}
Heads == {<<>>, <<MarkE, Newline, "a", Newline, MarkN, Newline, "a", Newline>>}

Fenced(head, tag, body) ==
    head \o <<MarkC, Newline, Fence>> \o tag \o <<Newline>> \o body
         \o <<Newline, Fence, Newline>>
Unfenced(head, body) == head \o <<MarkC, Newline>> \o body \o <<Newline>>

Texts ==
    Strings(MaxLen)
    \cup {Fenced(h, g, b) : h \in Heads, g \in Tags, b \in Bodies}
    \cup {Unfenced(h, b) : h \in Heads, b \in Bodies}

\* the texts of the calls in between
Others == {<<"a">>, <<MarkC, "a">>, <<MarkE, "a", MarkN>>}

SectionNames == {"explanation", "notes", "code"}

\* one round of the functions on a text, as in the callback and in
\* sendFinalSections: the active section, and the content of every section
Call(t, whose) ==
    [text |-> t,
     whose |-> whose,
     section |-> DetectCurrentSection(t),
     content |-> [sec \in SectionNames |-> ExtractSectionContent(t, sec)]]

\* the text has been examined twice, the last call being on it
Examined == Len(calls) > 1 /\ Last(calls).whose = "arg"

ExtractInit ==
    /\ Constructed
    /\ arg \in Texts
    /\ calls = <<>>

Examine ==
    /\ ~Examined
    /\ calls' = Append(calls, Call(arg, "arg"))
    /\ UNCHANGED <<hubState, transVars, oldHubVars, arg>>

ExamineOther(t) ==
    /\ calls # <<>>
    /\ ~Examined
    /\ Len(calls) <= MaxBetween
    /\ calls' = Append(calls, Call(t, "other"))
    /\ UNCHANGED <<hubState, transVars, oldHubVars, arg>>

ExtractNext ==
    \/ Examine
    \/ \E t \in Others : ExamineOther(t)

ExtractSpec == ExtractInit /\ [][ExtractNext]_vars

\* ================================================================ claims
\* the messages a reader's queue was handed, oldest first: those it has
\* written out followed by those still queued
Handed(r) == out[r] \o ch[r]
Attached(r) == rd[r].pc \in {"reading", "detach", "detach2"}
SoleProducer(id) ==
    Cardinality({p \in Producers : prod[p].pc # "idle" /\ prod[p].id = id}) = 1
Iota(n) == [i \in 1..n |-> i]

\* C1. Order preservation: a reader whose AddClient returned before the
\* first Send call for the job started and that has read "[DONE]" has read
\* exactly the job's Send sequence (stated for jobs with a single producer).
C1_OrderPreservation ==
    \A r \in Readers :
        ( /\ rd[r].pc = "detach"
          /\ rd[r].first
          /\ SoleProducer(rd[r].id)
          /\ out[r] # <<>>
          /\ Last(out[r]) = DONE )
        => out[r] = sent[rd[r].st]

\* C2. Late-join completeness: the backlog replay of AddClient never comes to
\* a halt before all K buffered messages are in the new queue (nobody can
\* take a message from the queue before AddClient has returned the handle).
C2_LateJoinComplete ==
    \A r \in Readers :
        (rd[r].pc = "replay" /\ Len(ch[r]) >= ChanCap) => rd[r].pos = rd[r].K

\* C3. Send never waits on subscriber behaviour: a started Send finds
\* stream.mu free, or held by an AddClient that can finish without any
\* reader consuming a message.
C3_SendNeverWaits ==
    \A p \in Producers :
        prod[p].pc = "apply" =>
            LET h == smu[prod[p].st] IN
                \/ h = 0
                \/ h = Sweeper
                \/ rd[h].pos = rd[h].K
                \/ Len(ch[h]) < ChanCap

\* C4. Terminal exactly-once: when a producer goroutine has finished, the
\* buffer it wrote to holds "[DONE]" exactly once.
C4_TerminalExactlyOnce ==
    \A p \in Producers :
        (prod[p].pc = "end" /\ prod[p].st # NoStream)
        => Count(DONE, buffer[prod[p].st]) = 1

\* C5. Always terminate visibly: a reader that was attached when "[DONE]"
\* was sent is never left waiting on an empty queue without having been
\* handed "[DONE]".
C5_TerminalVisible ==
    \A r \in Readers :
        ( /\ rd[r].pc = "reading"
          /\ ch[r] = <<>>
          /\ \E i \in 1..Len(buffer[rd[r].st]) :
                i > rd[r].K /\ buffer[rd[r].st][i] = DONE )
        => DONE \in Range(out[r])

\* C6. Replay then live feed: with Send calls racing the backlog replay, the
\* new queue is handed buffer entries in strictly increasing buffer order
\* (none twice, none ahead of an older one); during the replay exactly the
\* entries 1..pos, afterwards the whole backlog 1..K first, and every later
\* entry is either handed over or was offered to a full queue (no entry
\* falls between replay and live feed).
C6_ReplayThenLive ==
    \A r \in Readers :
        LET s == rd[r].st IN
        /\ (rd[r].pc = "replay") => got[r] = Iota(rd[r].pos)
        /\ Attached(r) =>
             /\ StrictlyIncreasing(got[r])
             /\ Len(got[r]) >= rd[r].K
             /\ SubSeq(got[r], 1, rd[r].K) = Iota(rd[r].K)
             /\ Handed(r) = [i \in 1..Len(got[r]) |-> buffer[s][got[r][i]]]
             /\ IsClient(r, s) =>
                  Range(got[r]) \cup skipped[r] = 1..Len(buffer[s])

\* a Send call is waiting for stream.mu while a replay that has handed over
\* the whole (non-empty) backlog still holds it
C6_Witness ==
    \E r \in Readers, p \in Producers :
        /\ rd[r].pc = "replay"
        /\ rd[r].pos >= 1
        /\ rd[r].pos = rd[r].K
        /\ prod[p].pc = "apply"
        /\ prod[p].st = rd[r].st

\* C7. A Send that finds a subscriber's queue full still appends the message
\* to the buffer, hands it to every other subscriber whose queue has room,
\* leaves the full queue as it is, and returns (the producer goes on).
C7_FullQueueFrame ==
    [][\A p \in Producers :
          (prod[p].pc = "apply" /\ prod'[p].pc # "apply") =>
              LET s == prod[p].st
                  m == prod[p].msg
              IN /\ buffer'[s] = Append(buffer[s], m)
                 /\ prod'[p].pc = After(m)
                 /\ \A c \in Readers :
                      IF IsClient(c, s) /\ Len(ch[c]) < ChanCap
                      THEN ch'[c] = Append(ch[c], m)
                      ELSE ch'[c] = ch[c]]_vars

\* a message was skipped for subscriber x and handed live to subscriber y
C7_Witness ==
    \E x, y \in Readers :
        /\ x # y
        /\ rd[x].pc = "reading" /\ rd[y].pc = "reading"
        /\ rd[x].st = rd[y].st
        /\ \E i \in skipped[x] : i > rd[y].K /\ i \in Range(got[y])

C9_BufferIsSendSequence ==
    \A s \in StreamIds : buffer[s] = sent[s]

\* a stream received its first message with no subscriber, a reader
\* attached, detached and closed its queue, both submissions ran Create
C9_Witness ==
    \E s \in StreamIds, r \in Readers :
        /\ rd[r].pc = "gone" /\ closed[r]
        /\ rd[r].st = s
        /\ rd[r].K >= 1
        /\ Len(buffer[s]) >= 3
        /\ clients[s] = <<>>
        /\ \A p \in Producers : prod[p].pc # "idle" /\ prod[p].st = s

\* C10. Once a stream is sealed, no Send appends to its buffer.
C10_SealedNeverAppended ==
    [][\A s \in StreamIds : done[s] => buffer'[s] = buffer[s]]_vars

\* C11. Reap safety: no step removes from the registry a stream that has a
\* subscriber whose AddClient has returned and whose RemoveClient has not
\* yet taken it out of the subscriber list.
C11_ReapSafety ==
    [][\A i \in Ids :
          (chans[i] # NoStream /\ chans'[i] = NoStream) =>
              ~ \E r \in Readers : IsClient(r, chans[i]) /\ Attached(r)]_vars

\* a reader that will be handed nothing more: its replay waits for room in
\* a queue nobody reads yet, or it has drained its queue after the job
\* completed, or it has read "[DONE]"
Settled(r) ==
    \/ rd[r].pc = "replay" /\ rd[r].pos < rd[r].K /\ Len(ch[r]) >= ChanCap
    \/ rd[r].pc = "reading" /\ ch[r] = <<>>
    \/ rd[r].pc = "detach" /\ out[r] # <<>> /\ Last(out[r]) = DONE

\* C12. Early and late reader agree: when reader 1 attached before the job's
\* first Send and has read "[DONE]", and reader 2 started to attach to the
\* same job id after the job had completed and will be handed nothing more,
\* reader 2 has read the same sequence as reader 1 (stated for jobs with a
\* single producer, reader 1 not yet detached).
C12_EarlyLateAgree ==
    \A r1, r2 \in Readers :
        ( /\ r1 # r2
          /\ rd[r1].id = rd[r2].id
          /\ SoleProducer(rd[r1].id)
          /\ rd[r1].first
          /\ rd[r1].pc = "detach"
          /\ out[r1] # <<>>
          /\ Last(out[r1]) = DONE
          /\ rd[r2].late
          /\ Settled(r2) )
        => out[r2] = out[r1]

\* a registered stream without subscribers, with no job running under its
\* id and no reader on its way in or out
Leftover(i) ==
    /\ chans[i] # NoStream
    /\ clients[chans[i]] = <<>>
    /\ \A p \in Producers : prod[p].id = i => prod[p].pc \in {"idle", "end"}
    /\ \A r \in Readers : rd[r].id = i => rd[r].pc \in {"idle", "gone"}

\* C13. With sweeps running for ever, no stream stays registered for ever
\* while it has no subscriber, no running job and no reader in flight.
C13_EventuallyReaped ==
    \A i \in Ids : []<>(~Leftover(i))

\* ------------------------------------------------ claims on the translator
IsFinal(m, section) == m.json /\ m.type = section /\ ~m.delta
IsDelta(m, section) == m.json /\ m.type = section /\ m.delta
Populated(section) == ExtractSectionContent(text, section) # <<>>

\* C14. After a provider failure the job's messages hold, before "[DONE]",
\* a final chunk for every section that has content in the accumulated text.
C14_FinalsAfterFailure ==
    (tpc = "end" /\ er = "error") =>
        \A i \in 1..Len(Sections) :
            Populated(Sections[i]) =>
                \E j \in 1..Len(emitted) :
                    /\ emitted[j] = Marshal(Sections[i],
                                            ExtractSectionContent(text, Sections[i]),
                                            FALSE)
                    /\ \E k \in (j + 1)..Len(emitted) : emitted[k] = Plain(DONE)

\* C15. Every message of the job is the literal "[DONE]" or a JSON chunk
\* object, and a job whose provider failed carries exactly one JSON chunk of
\* type error, behind every chunk made from the fragments and before "[DONE]".
C15_OnlySentinelOrJSON ==
    /\ \A i \in 1..Len(emitted) : emitted[i] = Plain(DONE) \/ emitted[i].json
    /\ (tpc = "end" /\ er = "error") =>
          \E i \in 1..Len(emitted) :
              /\ emitted[i].json /\ emitted[i].type = "error"
              /\ \A j \in 1..Len(emitted) :
                    /\ (emitted[j].json /\ emitted[j].type = "error") => j = i
                    /\ (emitted[j].json /\ emitted[j].type # "error") => j < i
                    /\ emitted[j] = Plain(DONE) => i < j

\* the step on which TranslateCode returns nil / the goroutine sends "[DONE]"
ReturnsNil == tpc = "stream" /\ er' = "nil"
SendsSentinel == tpc # "end" /\ tpc' = "end"

\* the final chunks a text calls for: explanation, notes, code, each with
\* the content extracted from the text, those without content left out
ExpectedFinals(t) ==
    SelectSeq([i \in 1..Len(Sections) |->
                  Marshal(Sections[i], ExtractSectionContent(t, Sections[i]), FALSE)],
              LAMBDA m : m.content # <<>>)

\* C16. When the provider call succeeds, TranslateCode appends to what the
\* fragments produced exactly the final chunks the full text calls for, in
\* the order explanation, notes, code, and nothing else is sent between
\* them and the first and only "[DONE]".
C16_FinalsOnSuccess ==
    [][/\ ReturnsNil => emitted' = emitted \o ExpectedFinals(text)
       /\ (er = "nil" /\ ~SendsSentinel) => emitted' = emitted
       /\ (er = "nil" /\ SendsSentinel) =>
             /\ emitted' = Append(emitted, Plain(DONE))
             /\ Plain(DONE) \notin Range(emitted)]_vars

\* a successful job over a text with explanation and code populated and an
\* empty notes section has sent its two final chunks and the sentinel
C16_Witness ==
    /\ tpc = "end" /\ er = "nil"
    /\ text = <<MarkE, "a", MarkN, MarkC, "a">>
    /\ Len(emitted) >= 3
    /\ SubSeq(emitted, Len(emitted) - 2, Len(emitted))
         = <<Marshal("explanation", <<"a">>, FALSE),
             Marshal("code", <<"a">>, FALSE), Plain(DONE)>>

\* C17. A job emits at most one final (non-delta) chunk per section.
C17_OneFinalPerSection ==
    \A i \in 1..Len(Sections) :
        Cardinality({j \in 1..Len(emitted) : IsFinal(emitted[j], Sections[i])}) <= 1

\* C18. All final chunks a job emits for one section carry the same content.
C18_FinalNeverAmended ==
    \A i, j \in 1..Len(emitted) :
        ( /\ emitted[i].json /\ ~emitted[i].delta
          /\ emitted[j].json /\ ~emitted[j].delta
          /\ emitted[i].type = emitted[j].type )
        => emitted[i].content = emitted[j].content

\* the messages one step adds
Added == SubSeq(emitted', Len(emitted) + 1, Len(emitted'))
Fragment == tpc = "stream" /\ fed' # fed

\* C19. A fragment that leaves the active section and the content extracted
\* for it as they were produces no chunk.
C19_NoDuplicateDelta ==
    [][( /\ Fragment
         /\ currentSection' = currentSection
         /\ ExtractSectionContent(text', currentSection)
              = ExtractSectionContent(text, currentSection) )
       => emitted' = emitted]_vars

\* C20. A fragment that moves the active section from P to another section
\* while P has content adds one final chunk for P, with P's content in the
\* text accumulated so far, ahead of anything else it adds, and what else it
\* adds is a delta of the new section; every other fragment adds no final
\* chunk.
C20_FinalOnSectionChange ==
    [][Fragment =>
         LET P == currentSection
             previous == ExtractSectionContent(text', P)
         IN IF P # "" /\ currentSection' # P /\ previous # <<>>
            THEN /\ Added # <<>>
                 /\ Head(Added) = Marshal(P, previous, FALSE)
                 /\ \A k \in 2..Len(Added) : IsDelta(Added[k], currentSection')
            ELSE \A k \in 1..Len(Added) : Added[k].json /\ Added[k].delta]_vars

\* the notes section was closed with its final chunk and the code section
\* opened with a delta, by one fragment
C20_Witness ==
    /\ tpc = "stream"
    /\ text = <<MarkE, MarkN, "a", MarkC, "a">>
    /\ currentSection = "code"
    /\ Len(emitted) >= 2
    /\ SubSeq(emitted, Len(emitted) - 1, Len(emitted))
         = <<Marshal("notes", <<"a">>, FALSE), Marshal("code", <<"a">>, TRUE)>>

\* ----------------------------------------- claims on the section functions
Markers == {MarkE, MarkN, MarkC}
SectionOf(m) ==
    CASE m = MarkE -> "explanation" [] m = MarkN -> "notes" [] m = MarkC -> "code"
MarkerOf(sec) == CHOOSE m \in Markers : SectionOf(m) = sec

\* where the markers stand in a text
MarkersAt(t) == {i \in 1..Len(t) : t[i] \in Markers}
Max(S) == CHOOSE x \in S : \A y \in S : y <= x
Min(S) == CHOOSE x \in S : \A y \in S : x <= y

\* the calls made so far
Made == {calls[k] : k \in 1..Len(calls)}

\* C21. Every call of detectCurrentSection returns the section of the marker
\* that stands last in the lower-cased text, whichever markers are present,
\* and for a text without marker it returns no section and
\* extractSectionContent returns empty content for every section.
C21_RightmostMarkerIsActive ==
    \A c \in Made :
        LET lowerText == ToLower(c.text)
        IN IF MarkersAt(lowerText) = {}
           THEN /\ c.section = ""
                /\ \A sec \in SectionNames : c.content[sec] = <<>>
           ELSE c.section = SectionOf(lowerText[Max(MarkersAt(lowerText))])

\* a text with a lone notes marker was found to be in notes, and a text
\* without marker in no section, with empty contents
C21_Witness ==
    /\ arg = <<"a", MarkN, "a">>
    /\ Len(calls) > 1
    /\ calls[1].section = "notes"
    /\ Last(calls).text = <<"a">>
    /\ Last(calls).section = ""
    /\ \A sec \in SectionNames : Last(calls).content[sec] = <<>>

\* a text of ASCII characters without code fence
PlainText(t) == \A i \in 1..Len(t) : t[i] \in Markers \cup {Blank, Newline, "a"}

\* the marker that follows in the order of the response format
Following(sec) ==
    CASE sec = "explanation" -> {MarkN} [] sec = "notes" -> {MarkC} [] OTHER -> {}

\* the trimmed text between the end of the rightmost marker of sec and the
\* start of the next following marker behind it, or the end of the text
AfterRightmost(t, sec) ==
    LET i == Max({k \in 1..Len(t) : t[k] = MarkerOf(sec)})
        behind == {k \in (i + 1)..Len(t) : t[k] \in Following(sec)}
        j == IF behind = {} THEN Len(t) + 1 ELSE Min(behind)
    IN TrimSpace(SubSeq(t, i + 1, j - 1))

\* C22. For every section whose marker occurs in the text, once or more
\* often, extractSectionContent returns the trimmed text between the end of
\* the rightmost occurrence of the marker and the start of the next marker in
\* sequence order behind it, or the end of the text.
C22_ContentAfterRightmost ==
    \A c \in Made :
        PlainText(c.text) =>
            \A sec \in SectionNames :
                MarkerOf(sec) \in Range(c.text)
                    => c.content[sec] = AfterRightmost(c.text, sec)

\* C23. For a code section whose payload is an opening fence with a language
\* tag, a newline, a body and a closing fence, extractSectionContent returns
\* the body alone, whatever the tag; for a payload without fence it returns
\* the trimmed payload.
C23_FencesStripped ==
    \A c \in Made :
        /\ \A h \in Heads, g \in Tags, b \in Bodies :
               c.text = Fenced(h, g, b) => c.content["code"] = b
        /\ \A h \in Heads, b \in Bodies :
               c.text = Unfenced(h, b) => c.content["code"] = TrimSpace(b)

\* C24. No call of the section functions panics, whatever the text: markers
\* missing, repeated or out of order, characters whose lower-case form has
\* another length.
C24_NeverPanics ==
    \A c \in Made : \A sec \in SectionNames : c.content[sec] # Panic

C26_UniqueJobIds ==
    \A p \in Producers : \A q \in Producers :
        (p # q /\ prod[p].pc # "idle" /\ prod[q].pc # "idle")
            => prod[p].id # prod[q].id

\* the operations that take locks: the sweep, and the requests
HoldsHubLock(op) == op = Sweeper /\ hmu = "cleanup"
HoldsStreamLock(op) == \E s \in StreamIds : smu[s] = op

\* C27. No operation of the Hub holds Hub.mu and a Stream.mu at the same
\* time.
C27_NeverBothLocks ==
    \A op \in Readers \cup {Sweeper} : ~(HoldsHubLock(op) /\ HoldsStreamLock(op))

\* a step in which Create(id) runs, or the lookup-or-create of AddClient(id)
Creates(id) ==
    \/ \E p \in Producers : Submit(p) /\ prod'[p].id = id
    \/ \E r \in Readers : AddClientHub(r, id)

\* C28. Create(id), and the head of AddClient(id), registers a stream with
\* empty buffer, no subscribers and not sealed exactly when none is
\* registered for id (never created, or reaped); otherwise it leaves the
\* registered stream and its buffer, subscribers and seal as they are. An
\* AddClient uses the registered stream, and no other id's entry changes.
C28_CreateOnlyIfAbsent ==
    [][\A id \in Ids : Creates(id) =>
          /\ IF chans[id] = NoStream
             THEN /\ chans'[id] \in StreamIds
                  /\ \A j \in Ids : chans[j] # chans'[id]
                  /\ \A r \in Readers : rd[r].st # chans'[id]
                  /\ \A p \in Producers : prod[p].st # chans'[id]
                  /\ buffer'[chans'[id]] = <<>>
                  /\ clients'[chans'[id]] = <<>>
                  /\ ~done'[chans'[id]]
             ELSE chans'[id] = chans[id]
          /\ \A j \in Ids \ {id} : chans'[j] = chans[j]
          /\ \A r \in Readers : AddClientHub(r, id) => rd'[r].st = chans'[id]
          /\ UNCHANGED <<buffer, clients, done>>]_vars

\* the job's stream was sealed and reaped, a first request on the same id
\* registered a second, empty stream, and a second request found that one
C28_Witness ==
    /\ nstreams > 1
    /\ done[1] /\ buffer[1] # <<>>
    /\ \E id \in Ids :
          /\ chans[id] = nstreams
          /\ \E p \in Producers : prod[p].id = id /\ prod[p].st = 1
          /\ \A r \in Readers : rd[r].id = id /\ rd[r].st = nstreams
    /\ buffer[nstreams] = <<>>
    /\ ~done[nstreams]

\* a step of RemoveClient(rd[r].id, r)
Removes(r) == RemoveLookup(r) \/ RemoveDetach(r) \/ RemoveClose(r)

\* s is t with the entry c left out, the others in their order
LeftOut(s, t, c) ==
    /\ Range(s) = Range(t) \ {c}
    /\ Len(s) = Cardinality(Range(s))
    /\ \A i, j \in 1..Len(s) :
          i < j => \E k, l \in 1..Len(t) : k < l /\ t[k] = s[i] /\ t[l] = s[j]

\* C29. RemoveClient(id, handle) takes exactly that handle out of the
\* subscribers of the stream registered for id; it leaves the registry, every
\* buffer and seal, every other stream's subscribers and every other
\* subscriber's queue as they are. With no stream registered for id it
\* returns and changes nothing in the hub.
C29_RemoveClientFrame ==
    [][\A r \in Readers : Removes(r) =>
          /\ UNCHANGED <<chans, nstreams, buffer, done, smu, hmu>>
          /\ \A q \in Readers \ {r} : ch'[q] = ch[q] /\ closed'[q] = closed[q]
          /\ \A s \in StreamIds :
                IF RemoveDetach(r) /\ s = chans[rd[r].id]
                THEN LeftOut(clients'[s], clients[s], r)
                ELSE clients'[s] = clients[s]
          /\ (rd[r].pc = "detach" /\ chans[rd[r].id] = NoStream)
                => /\ rd'[r].pc = "gone"
                   /\ UNCHANGED <<clients, ch, closed>>]_vars

\* the younger of two subscribers of a stream has been taken out of the
\* list, the older is still reading from it
C29_Witness ==
    \E s \in StreamIds :
        /\ clients[s] = <<1>>
        /\ rd[1].pc = "reading" /\ rd[1].st = s
        /\ rd[2].pc = "close" /\ rd[2].st2 = s

\* the handler of the request is between AddClient and close(client.Ch)
Serving(r) == rd[r].pc \in {"replay", "reading", "detach", "detach2", "close"}

\* C30. StreamHandler writes one event per message it takes from its queue,
\* in queue order: the events written, followed by what is still queued, are
\* the messages the queue was handed, in that order. Once it has written the
\* event for "[DONE]" that event stays its last one and the handler has left
\* its loop for the deferred RemoveClient.
C30_OneEventPerMessage ==
    \A r \in Readers :
        /\ Serving(r) =>
              out[r] \o ch[r]
                = [i \in 1..Len(got[r]) |-> buffer[rd[r].st][got[r][i]]]
        /\ DONE \in Range(out[r]) =>
              /\ Last(out[r]) = DONE
              /\ Count(DONE, out[r]) = 1
              /\ rd[r].pc \in {"detach", "detach2", "close", "gone"}

\* a handler has written a chunk and then the sentinel and has left its
\* loop, with a later message of the job in its queue that it will not write
C30_Witness ==
    \E r \in Readers :
        /\ rd[r].pc = "detach"
        /\ Len(out[r]) > 1
        /\ Last(out[r]) = DONE
        /\ ch[r] # <<>>

\* C31. When StreamHandler has returned, whichever way it left its loop, its
\* deferred RemoveClient has run and the handle is in no stream's subscriber
\* list any more.
C31_ExitDetaches ==
    \A r \in Readers :
        rd[r].pc = "gone" => \A s \in StreamIds : ~IsClient(r, s)

\* a is b with some entries left out
RECURSIVE IsSubsequence(_, _)
IsSubsequence(a, b) ==
    IF a = <<>> THEN TRUE
    ELSE IF b = <<>> THEN FALSE
    ELSE IF Head(a) = Head(b) THEN IsSubsequence(Tail(a), Tail(b))
    ELSE IsSubsequence(a, Tail(b))

\* C37. What a subscriber's queue has been handed, by the backlog replay and
\* by live pushes together, is a subsequence of the buffer of the stream it
\* attached to: the messages are entries of that buffer, in buffer order, no
\* entry twice, nothing that is not in the buffer.
C37_HandedIsSubsequence ==
    \A r \in Readers :
        Serving(r) =>
            LET b == buffer[rd[r].st]
                h == Handed(r)
            IN /\ IsSubsequence(h, b)
               /\ Len(h) <= Len(b)
               /\ Len(got[r]) = Len(h)
               /\ \A j \in 1..Len(h) :
                     /\ got[r][j] \in 1..Len(b)
                     /\ h[j] = b[got[r][j]]
                     /\ \A i \in 1..(j - 1) : got[r][i] < got[r][j]

\* a queue was handed a backlog entry by the replay and a later entry by a
\* live push, and an entry in between was left out
C37_Witness ==
    \E r \in Readers :
        /\ rd[r].pc = "reading"
        /\ rd[r].K >= 1
        /\ Len(got[r]) > rd[r].K
        /\ \E i \in skipped[r] : i < Last(got[r])

\* C38. The sweep removes sealed streams only: a job that has not sent its
\* "[DONE]" yet is still registered, whatever sweeps have passed, so that
\* Send finds a stream for each of its remaining messages.
C38_UnfinishedJobStaysRegistered ==
    /\ reap # 0 => done[chans[reap]]
    /\ \A p \in Producers :
          prod[p].pc \in {"translate", "finish"} =>
              chans[prod[p].id] # NoStream

\* C39. Every chunk TranslateCode emits has type explanation, notes or code;
\* while the accumulated text holds no marker it emits no chunk; and a
\* provider response that ends without error and holds no marker leaves the
\* stream with the terminal sentinel only.
C39_ChunksOnlyOfMarkedSections ==
    /\ \A i \in 1..Len(emitted) :
          emitted[i].json =>
              /\ emitted[i].type \in SectionNames
              /\ MarkersAt(text) # {}
    /\ (tpc = "end" /\ er = "nil" /\ MarkersAt(text) = {}) =>
          emitted = <<Plain(DONE)>>

\* a response of several fragments without any marker has ended, and the
\* sentinel is all that was sent
C39_Witness ==
    /\ tpc = "end"
    /\ er = "nil"
    /\ Len(text) >= 2
    /\ "a" \in Range(text)
    /\ MarkersAt(text) = {}
    /\ emitted = <<Plain(DONE)>>

\* C36. With every handle passed to RemoveClient at most once, Send never
\* writes to a subscriber channel that has been closed, and no channel is
\* closed twice: a closed channel holds nothing (close happens on the
\* handler's way out, after its last receive), and a channel about to be
\* closed is still open.
C36_NoSendOnClosedChannel ==
    \A r \in Readers :
        /\ closed[r] => ch[r] = <<>>
        /\ rd[r].pc = "close" => ~closed[r]

\* --------------------------------------------------- claims on progress
\* C32. Whatever the readers of a job do, its producer goroutine gets through
\* every Send: it is never held up for ever, and comes to the end of its
\* message sequence with "[DONE]" appended to the buffer.
C32_ProducerGetsThrough ==
    \A p \in Producers : (prod[p].pc = "translate") ~> (prod[p].pc = "end")

\* C34. An AddClient that has started its replay returns the handle, whatever
\* the length of the backlog.
C34_AddClientReturns ==
    \A r \in Readers : (rd[r].pc = "replay") ~> (rd[r].pc = "reading")

\* C35. Every operation of every job begins by taking Hub.mu. Whatever the
\* readers of some job do, and whenever the sweep runs, Hub.mu is free again
\* later on, so that the operations of the other jobs complete.
C35_RegistryLockComesBack ==
    []<>(hmu = "free")

\* ------------------------------------------------ claims on the adapters
\* C33. When the upstream backend fails while streaming, StreamCompletion
\* returns a non-nil error to TranslateCode and the process keeps running
\* (so that "ERROR: ..." and "[DONE]" follow), with either adapter.
C33_UpstreamFailureIsReturned ==
    [][UpstreamFails => (tpc' = "returned" /\ er' = "error")]_vars

\* ------------------------------------- claims on the single-channel Hub
\* C40. In the single-channel Hub, with every handle AddClient returned
\* passed to RemoveClient exactly once (two readers of one job id included),
\* no channel is closed twice and no message is sent on a closed channel.
C40_OldHubClosesOnce ==
    /\ \A c \in Channels : ocloses[c] <= 1
    /\ ~olate

====
